---- MODULE Spec2Model ----
(***************************************************************************)
(* In-memory origin private file system (src/src/opfs.ts, the current      *)
(* implementation at lines 456-819, and src/src/index.ts).                 *)
(*                                                                         *)
(* Objects are kept in sequences; an object's index is its JavaScript      *)
(* object identity.  A caller may keep any handle it was ever given, so    *)
(* every operation may be applied to every object created so far, also to  *)
(* entries that were removed from their parent.                            *)
(***************************************************************************)
EXTENDS Integers, Sequences, FiniteSets, TLC

\* ------------------------------------------------------------------ bounds
MaxDirs == 3
MaxFiles == 2
MaxStreams == 2
MaxHandles == 2
MaxLen == 2
MaxPending == 1
MaxSnapshots == 1
MaxTime == 2
MaxIterators == 1

\* ------------------------------------------------------------------ inputs
Names == {"a", "b"}
\* numbers a caller passes as position, size or at
Numbers == -1 .. MaxLen
\* byte sequences a caller passes (Uint8Array, DataView or ArrayBuffer contents)
ByteChunks == {<<>>, <<1>>, <<2, 1>>}
\* strings a caller passes, as sequences of code points (233 is U+00E9)
Strings == {<<1>>, <<233>>}
\* abort reasons; "undefined" is abort() without an argument
Reasons == {"undefined", "", "r1", "r2"}

\* JavaScript values a caller may pass where a number is expected
Undefined == [t |-> "undefined"]
Null == [t |-> "null"]
Num(n) == [t |-> "number", n |-> n]
IsNumber(x) == x.t = "number"

\* FileSystemWriteChunkType
UndefinedChunk == [kind |-> "undefined"]
NullData == [kind |-> "null"]
OtherChunk == [kind |-> "other"]
StringChunk(text) == [kind |-> "string", text |-> text]
BlobChunk(text) == [kind |-> "blob", text |-> text]
ViewChunk(bytes) == [kind |-> "view", bytes |-> bytes]
BufferChunk(bytes) == [kind |-> "buffer", bytes |-> bytes]
\* an object literal; hasData is ('data' in chunk)
Params(type, hasData, data, position, size) ==
  [kind |-> "params", type |-> type, hasData |-> hasData, data |-> data,
   position |-> position, size |-> size]

RawChunks ==
  {StringChunk(t) : t \in Strings} \cup {BlobChunk(t) : t \in Strings}
    \cup {ViewChunk(b) : b \in ByteChunks} \cup {BufferChunk(<<1>>)}
DataValues ==
  {UndefinedChunk, NullData, OtherChunk, StringChunk(<<1>>), BlobChunk(<<1>>), ViewChunk(<<2, 1>>)}
OptionalNumbers == {Undefined, Null} \cup {Num(n) : n \in Numbers}
Chunks ==
  {UndefinedChunk, OtherChunk} \cup RawChunks
    \cup {Params("write", TRUE, d, p, Undefined) : d \in DataValues, p \in OptionalNumbers}
    \cup {Params("write", TRUE, StringChunk(<<1>>), Undefined, z) : z \in {Null, Num(-1), Num(1)}}
    \cup {Params("seek", FALSE, UndefinedChunk, p, Undefined) : p \in OptionalNumbers}
    \cup {Params("seek", TRUE, UndefinedChunk, Num(1), Undefined)}
    \cup {Params("truncate", FALSE, UndefinedChunk, Undefined, z) : z \in OptionalNumbers}

VARIABLES
  dirs,           \* directory handles: [name, files, directories]
  fileHandles,    \* file handles: [name, ref, own]  (fileData.content, see FileContent)
  streams,        \* writable streams: closure state of createWritable
  accessHandles,  \* sync access handles: closure state of createSyncAccessHandle
  snapshots,      \* File objects returned by getFile(): [file, name, bytes, lastModified]
  root,           \* index.ts: the directory the installed getDirectory() returns
  now,            \* Date.now(), in ticks
  iterators       \* async generators of directories: [dir, kind, started, joinedMaps, yielded]

vars == <<dirs, fileHandles, streams, accessHandles, snapshots, root, now, iterators>>

DirIds == 1 .. Len(dirs)
FileIds == 1 .. Len(fileHandles)
StreamIds == 1 .. Len(streams)
HandleIds == 1 .. Len(accessHandles)

(***************************************************************************)
(* A call either throws or returns.  For every operation Op the operator   *)
(* OpErr gives the name of the error the call throws in the current state  *)
(* ("" when it returns) and the action Op gives its effect on the state;   *)
(* a call that throws before it assigned anything is a step that changes   *)
(* nothing.                                                                *)
(***************************************************************************)

\* ------------------------------------------------------------- JS helpers
Min(a, b) == IF a < b THEN a ELSE b
Max(a, b) == IF a < b THEN b ELSE a

\* an insertion-ordered Map<string, id> as a sequence of <<key, value>>
MapHas(m, k) == \E i \in 1 .. Len(m) : m[i][1] = k
MapGet(m, k) == m[CHOOSE i \in 1 .. Len(m) : m[i][1] = k][2]
MapSet(m, k, v) ==
  IF MapHas(m, k)
    THEN [i \in 1 .. Len(m) |-> IF m[i][1] = k THEN <<k, v>> ELSE m[i]]
    ELSE Append(m, <<k, v>>)
MapDelete(m, k) == SelectSeq(m, LAMBDA e : e[1] # k)
MapKeys(m) == {m[i][1] : i \in 1 .. Len(m)}
MapValues(m) == {m[i][2] : i \in 1 .. Len(m)}

\* fileSystemDirectoryHandleFactory(name): empty files and directories maps
NewDirectory(name) == [name |-> name, files |-> <<>>, directories |-> <<>>]
\* fileSystemFileHandleFactory(name, { content: new Uint8Array() })
NewFile(name) == [name |-> name, ref |-> 0, own |-> <<>>]

\* ----------------------------------------------------------------- state
Init ==
  /\ dirs = <<NewDirectory("root")>>
  /\ fileHandles = <<>>
  /\ streams = <<>>
  /\ accessHandles = <<>>
  /\ snapshots = <<>>
  /\ root = 1
  /\ now = 0
  /\ iterators = <<>>

\* ------------------------------------------------------- directory handle
GetFileHandleErr(d, fileName, create) ==
  IF ~MapHas(dirs[d].files, fileName) /\ ~create THEN "NotFoundError" ELSE ""

\* getFileHandle that creates the file also without the create option (not what the
\* code does)
GetFileHandleCreating(d, fileName, create) ==
  /\ d \in DirIds
  /\ UNCHANGED <<streams, accessHandles, snapshots, root, now, iterators>>
  /\ IF ~MapHas(dirs[d].files, fileName)
       THEN /\ Len(fileHandles) < MaxFiles
            /\ fileHandles' = Append(fileHandles, NewFile(fileName))
            /\ dirs' = [dirs EXCEPT ![d].files = MapSet(@, fileName, Len(fileHandles) + 1)]
       ELSE UNCHANGED <<dirs, fileHandles>>

\* getFileHandle that, creating a name, re-attaches a removed file of that name when
\* there is one (not what the code does)
GetFileHandleReviving(d, fileName, create) ==
  /\ d \in DirIds
  /\ UNCHANGED <<streams, accessHandles, snapshots, root, now, iterators>>
  /\ IF ~MapHas(dirs[d].files, fileName) /\ create
       THEN LET removed == {f \in FileIds : fileHandles[f].name = fileName}
            IN IF removed # {}
                 THEN /\ dirs' = [dirs EXCEPT ![d].files =
                                    MapSet(@, fileName, CHOOSE f \in removed : TRUE)]
                      /\ UNCHANGED fileHandles
                 ELSE /\ Len(fileHandles) < MaxFiles
                      /\ fileHandles' = Append(fileHandles, NewFile(fileName))
                      /\ dirs' = [dirs EXCEPT ![d].files =
                                    MapSet(@, fileName, Len(fileHandles) + 1)]
       ELSE UNCHANGED <<dirs, fileHandles>>

GetFileHandle(d, fileName, create) ==
  /\ d \in DirIds
  /\ UNCHANGED <<streams, accessHandles, snapshots, root, now, iterators>>
  /\ IF ~MapHas(dirs[d].files, fileName) /\ create
       THEN /\ Len(fileHandles) < MaxFiles
            /\ fileHandles' = Append(fileHandles, NewFile(fileName))
            /\ dirs' = [dirs EXCEPT ![d].files = MapSet(@, fileName, Len(fileHandles) + 1)]
       ELSE UNCHANGED <<dirs, fileHandles>>

GetDirectoryHandleErr(d, dirName, create) ==
  IF ~MapHas(dirs[d].directories, dirName) /\ ~create THEN "NotFoundError" ELSE ""

\* getDirectoryHandle that, creating a name, enters the directory itself under it
\* (not what the code does)
GetDirectoryHandleLinking(d, dirName, create) ==
  /\ d \in DirIds
  /\ UNCHANGED <<fileHandles, streams, accessHandles, snapshots, root, now, iterators>>
  /\ IF ~MapHas(dirs[d].directories, dirName) /\ create
       THEN dirs' = [dirs EXCEPT ![d].directories = MapSet(@, dirName, d)]
       ELSE UNCHANGED dirs

GetDirectoryHandle(d, dirName, create) ==
  /\ d \in DirIds
  /\ UNCHANGED <<fileHandles, streams, accessHandles, snapshots, root, now, iterators>>
  /\ IF ~MapHas(dirs[d].directories, dirName) /\ create
       THEN /\ Len(dirs) < MaxDirs
            /\ dirs' = Append([dirs EXCEPT ![d].directories = MapSet(@, dirName, Len(dirs) + 1)],
                              NewDirectory(dirName))
       ELSE UNCHANGED dirs

RemoveEntryErr(d, entryName, recursive) ==
  IF MapHas(dirs[d].files, entryName) THEN ""
  ELSE IF MapHas(dirs[d].directories, entryName)
    THEN IF recursive THEN "" ELSE "InvalidModificationError"
  ELSE "NotFoundError"

RemoveEntry(d, entryName, recursive) ==
  /\ d \in DirIds
  /\ UNCHANGED <<fileHandles, streams, accessHandles, snapshots, root, now, iterators>>
  /\ IF MapHas(dirs[d].files, entryName)
       THEN dirs' = [dirs EXCEPT ![d].files = MapDelete(@, entryName)]
       ELSE IF MapHas(dirs[d].directories, entryName) /\ recursive
         THEN dirs' = [dirs EXCEPT ![d].directories = MapDelete(@, entryName)]
         ELSE UNCHANGED dirs

\* ------------------------------------------------------------ byte buffers
\* a longer array that is not zero behind b (not what the code does)
ExtendedUnfilled(b, n) == [i \in 1 .. n |-> IF i <= Len(b) THEN b[i] ELSE 1]

\* new Uint8Array(n) followed by .set(b): b, zero-filled up to length n
Extended(b, n) == [i \in 1 .. n |-> IF i <= Len(b) THEN b[i] ELSE 0]
\* b.slice(0, n); a negative n counts from the end
Slice(b, n) == SubSeq(b, 1, IF n < 0 THEN Max(Len(b) + n, 0) ELSE Min(n, Len(b)))
\* b.set(data) that ignores the offset (not what the code does)
SetAtStart(b, data, at) ==
  [i \in 1 .. Len(b) |-> IF i <= Len(data) THEN data[i] ELSE b[i]]
\* b.set(data, at) that also clears what stands behind the data (not what the code does)
SetAtClearing(b, data, at) ==
  [i \in 1 .. Len(b) |-> IF i > at /\ i <= at + Len(data) THEN data[i - at]
                         ELSE IF i > at + Len(data) THEN 0 ELSE b[i]]

\* b.set(data, at), in place
SetAt(b, data, at) ==
  [i \in 1 .. Len(b) |-> IF i > at /\ i <= at + Len(data) THEN data[i - at] ELSE b[i]]

\* new TextEncoder().encode(text): UTF-8 of a sequence of code points below 2048
RECURSIVE Utf8(_)
Utf8(text) ==
  IF text = <<>> THEN <<>>
  ELSE LET c == Head(text)
       IN (IF c < 128 THEN <<c>> ELSE <<192 + (c \div 64), 128 + (c % 64)>>) \o Utf8(Tail(text))

(***************************************************************************)
(* fileData.content is a reference to a Uint8Array.  close() stores the    *)
(* stream's own array in it, so afterwards both names denote one object    *)
(* until one of them is assigned a new array.  An array is only ever       *)
(* shared between a file and one of its streams, so the heap is kept as:   *)
(* ref = 0, the file's array is `own`; ref = s, it is stream s's `content` *)
(* array itself.                                                           *)
(***************************************************************************)
FileContent(f) ==
  IF fileHandles[f].ref = 0 THEN fileHandles[f].own
  ELSE streams[fileHandles[f].ref].content

\* stream s is assigned a new array: a file that shared the old one keeps it
Detached(s) ==
  LET f == streams[s].file
  IN IF fileHandles[f].ref = s
       THEN [fileHandles EXCEPT ![f] = [@ EXCEPT !.ref = 0, !.own = streams[s].content]]
       ELSE fileHandles

\* an assignment that reaches every file of the same name (not what the code does)
AssignedByName(f, bytes) ==
  [g \in FileIds |->
     IF fileHandles[g].name = fileHandles[f].name
       THEN [fileHandles[g] EXCEPT !.ref = 0, !.own = bytes]
       ELSE fileHandles[g]]

\* fileData.content = bytes, a new array
Assigned(f, bytes) == [fileHandles EXCEPT ![f] = [@ EXCEPT !.ref = 0, !.own = bytes]]

\* what getFile() of every file would return
Committed == [f \in FileIds |-> FileContent(f)]

\* ---------------------------------------------------------- writable stream
\* createWritable that seeds the buffer whatever the option says (not what the code does)
CreateWritableKeeping(f, keepExistingData) ==
  /\ f \in FileIds
  /\ Len(streams) < MaxStreams
  /\ streams' = Append(streams,
       [file |-> f,
        abortReason |-> "",
        isAborted |-> FALSE,
        isClosed |-> FALSE,
        content |-> FileContent(f),
        cursorPosition |-> Len(FileContent(f)),
        pending |-> <<>>])
  /\ UNCHANGED <<dirs, fileHandles, accessHandles, snapshots, root, now, iterators>>

\* createWritable whose keepExistingData copies the buffer of a stream that is open on
\* the file, when there is one (not what the code does)
CreateWritableFromPending(f, keepExistingData) ==
  /\ f \in FileIds
  /\ Len(streams) < MaxStreams
  /\ LET open == {t \in StreamIds :
                    streams[t].file = f /\ ~streams[t].isClosed /\ ~streams[t].isAborted}
         seed == IF open # {} THEN streams[CHOOSE t \in open : TRUE].content
                 ELSE FileContent(f)
     IN streams' = Append(streams,
          [file |-> f,
           abortReason |-> "",
           isAborted |-> FALSE,
           isClosed |-> FALSE,
           content |-> IF keepExistingData THEN seed ELSE <<>>,
           cursorPosition |-> IF keepExistingData THEN Len(seed) ELSE 0,
           pending |-> <<>>])
  /\ UNCHANGED <<dirs, fileHandles, accessHandles, snapshots, root, now, iterators>>

CreateWritable(f, keepExistingData) ==
  /\ f \in FileIds
  /\ Len(streams) < MaxStreams
  /\ streams' = Append(streams,
       [file |-> f,
        abortReason |-> "",
        isAborted |-> FALSE,
        isClosed |-> FALSE,
        content |-> IF keepExistingData THEN FileContent(f) ELSE <<>>,
        cursorPosition |-> IF keepExistingData THEN Len(FileContent(f)) ELSE 0,
        pending |-> <<>>])
  /\ UNCHANGED <<dirs, fileHandles, accessHandles, snapshots, root, now, iterators>>

\* lines 564-573 of write(): the encoded bytes go into the working buffer at the
\* cursor of `base`; Grows: the buffer is replaced by a longer array first
Grows(base, s, encoded) ==
  Len(base[s].content) < base[s].cursorPosition + Len(encoded)
\* a store that appends the bytes behind the buffer, wherever the cursor is (not what
\* the code does)
StoredAppending(base, s, encoded) ==
  LET st == base[s]
  IN [base EXCEPT ![s] = [@ EXCEPT
        !.content = st.content \o encoded,
        !.cursorPosition = Len(st.content) + Len(encoded)]]

Stored(base, s, encoded) ==
  LET st == base[s]
      requiredSize == st.cursorPosition + Len(encoded)
      room == IF Len(st.content) < requiredSize
                THEN Extended(st.content, requiredSize) ELSE st.content
  IN [base EXCEPT ![s] = [@ EXCEPT
        !.content = SetAt(room, encoded, st.cursorPosition),
        !.cursorPosition = st.cursorPosition + Len(encoded)]]
\* mutant: the write goes through to the file's committed content
StoreAtCursorWriteThrough(base, s, encoded) ==
  /\ base[s].cursorPosition + Len(encoded) <= MaxLen
  /\ fileHandles' = Assigned(base[s].file, Stored(base, s, encoded)[s].content)
  /\ streams' = Stored(base, s, encoded)
StoreAtCursor(base, s, encoded) ==
  /\ base[s].cursorPosition + Len(encoded) <= MaxLen
  /\ fileHandles' = IF Grows(base, s, encoded) THEN Detached(s) ELSE fileHandles
  /\ streams' = Stored(base, s, encoded)

\* the truncate branch of write()
TruncateCommand(s, size) ==
  LET st == streams[s]
  IN /\ fileHandles' = Detached(s)
     /\ streams' = [streams EXCEPT ![s] = [@ EXCEPT
                      !.content = IF size < Len(st.content) THEN Slice(st.content, size)
                                  ELSE Extended(st.content, size),
                      !.cursorPosition = Min(st.cursorPosition, size)]]

\* a chunk or WriteParams.data whose bytes are at hand without awaiting
IsSyncData(x) == x.kind \in {"string", "view", "buffer"}
Encoded(x) == IF x.kind = "string" THEN Utf8(x.text) ELSE x.bytes

\* write() reaches `await blob.text()`: the rest of the call runs later
Suspend(base, s, text) ==
  /\ Len(base[s].pending) < MaxPending
  /\ streams' = [base EXCEPT ![s].pending = Append(@, text)]
  /\ UNCHANGED fileHandles

\* stream.getWriter(): Object.assign has put () => writableStream.getWriter() on
\* writableStream itself, so the call calls itself until the stack is exhausted
GetWriterErr(s) == "RangeError"

GetWriter(s) ==
  /\ s \in StreamIds
  /\ UNCHANGED vars

\* the error write() throws before it has assigned anything
WriteEarlyErr(s, chunk) ==
  LET st == streams[s]
      bad(x) == x # Undefined /\ (~IsNumber(x) \/ x.n < 0)
  IN IF st.isAborted THEN "Error"
     ELSE IF st.isClosed THEN "TypeError"
     ELSE IF chunk.kind = "undefined" THEN "TypeError"
     ELSE IF chunk.kind = "params" /\ chunk.type = "truncate"
       THEN IF ~IsNumber(chunk.size) \/ chunk.size.n < 0 THEN "TypeError" ELSE ""
     ELSE IF IsSyncData(chunk) \/ chunk.kind = "blob" THEN ""
     ELSE IF chunk.kind = "params" /\ chunk.hasData
       THEN IF bad(chunk.position) \/ bad(chunk.size) THEN "TypeError" ELSE ""
     ELSE "TypeError"

\* WriteParams whose data is none of undefined, null, string, Blob, view, ArrayBuffer:
\* thrown after the position was taken over
InvalidParamsData(chunk) ==
  /\ chunk.kind = "params" /\ chunk.type # "truncate" /\ chunk.hasData
  /\ ~(chunk.data.kind \in {"undefined", "null", "blob"} \/ IsSyncData(chunk.data))

WriteErr(s, chunk) ==
  IF WriteEarlyErr(s, chunk) # "" THEN WriteEarlyErr(s, chunk)
  ELSE IF InvalidParamsData(chunk) THEN "TypeError"
  ELSE ""
\* the message of the error thrown on an aborted stream: new Error(abortReason)
WriteErrMessage(s, chunk) == IF streams[s].isAborted THEN streams[s].abortReason ELSE ""

Write(s, chunk) ==
  /\ s \in StreamIds
  /\ UNCHANGED <<dirs, accessHandles, snapshots, root, now, iterators>>
  /\ IF WriteEarlyErr(s, chunk) # "" THEN UNCHANGED <<fileHandles, streams>>
     ELSE IF chunk.kind = "params" /\ chunk.type = "truncate"
       THEN TruncateCommand(s, chunk.size.n)
     ELSE IF IsSyncData(chunk) THEN StoreAtCursor(streams, s, Encoded(chunk))
     ELSE IF chunk.kind = "blob" THEN Suspend(streams, s, chunk.text)
     ELSE
       LET moved == IF chunk.position # Undefined
                      THEN [streams EXCEPT ![s].cursorPosition = chunk.position.n]
                      ELSE streams
           data == chunk.data
       IN IF data.kind \in {"undefined", "null"} THEN StoreAtCursor(moved, s, <<>>)
          ELSE IF IsSyncData(data) THEN StoreAtCursor(moved, s, Encoded(data))
          ELSE IF data.kind = "blob" THEN Suspend(moved, s, data.text)
          ELSE streams' = moved /\ UNCHANGED fileHandles

\* a write that awaited blob.text() resumes: the text is encoded and stored
WriteResume(s, i) ==
  /\ s \in StreamIds
  /\ i \in 1 .. Len(streams[s].pending)
  /\ LET rest == [streams EXCEPT ![s].pending =
                    SubSeq(@, 1, i - 1) \o SubSeq(@, i + 1, Len(@))]
     IN StoreAtCursor(rest, s, Utf8(streams[s].pending[i]))
  /\ UNCHANGED <<dirs, accessHandles, snapshots, root, now, iterators>>

\* mutant: close() does not look at isAborted
CloseErrIgnoringAbort(s) == IF streams[s].isClosed THEN "TypeError" ELSE ""
CloseErr(s) ==
  IF streams[s].isClosed THEN "TypeError"
  ELSE IF streams[s].isAborted THEN "TypeError"
  ELSE ""

\* fileData.content = content: the file now holds the stream's own array
CommittedBy(s) ==
  [fileHandles EXCEPT ![streams[s].file] = [@ EXCEPT !.ref = s, !.own = <<>>]]
\* mutant: close() appends the working buffer to the committed content
CloseMerging(s) ==
  /\ s \in StreamIds
  /\ UNCHANGED <<dirs, accessHandles, snapshots, root, now, iterators>>
  /\ IF CloseErr(s) # "" THEN UNCHANGED <<fileHandles, streams>>
     ELSE /\ streams' = [streams EXCEPT ![s].isClosed = TRUE]
          /\ fileHandles' = Assigned(streams[s].file,
                               FileContent(streams[s].file) \o streams[s].content)
Close(s) ==
  /\ s \in StreamIds
  /\ UNCHANGED <<dirs, accessHandles, snapshots, root, now, iterators>>
  /\ IF CloseErr(s) # "" THEN UNCHANGED <<fileHandles, streams>>
     ELSE /\ streams' = [streams EXCEPT ![s].isClosed = TRUE]
          /\ fileHandles' = CommittedBy(s)

\* abort() that takes over the reason of every call (not what the code does)
AbortReplacingReason(s, reason) ==
  /\ s \in StreamIds
  /\ UNCHANGED <<dirs, fileHandles, accessHandles, snapshots, root, now, iterators>>
  /\ streams' = [streams EXCEPT ![s] = [@ EXCEPT
       !.abortReason = IF reason \notin {"undefined", ""} THEN reason ELSE @,
       !.isAborted = TRUE]]

\* reason: "undefined" is abort() without an argument; abort() never throws
Abort(s, reason) ==
  /\ s \in StreamIds
  /\ UNCHANGED <<dirs, fileHandles, accessHandles, snapshots, root, now, iterators>>
  /\ IF streams[s].isAborted
       THEN UNCHANGED streams
       ELSE streams' = [streams EXCEPT ![s] = [@ EXCEPT
              !.abortReason = IF reason \notin {"undefined", ""} /\ @ = "" THEN reason ELSE @,
              !.isAborted = TRUE]]

TruncateErr(s, size) == IF size < 0 THEN "IndexSizeError" ELSE ""

Truncate(s, size) ==
  /\ s \in StreamIds
  /\ UNCHANGED <<dirs, accessHandles, snapshots, root, now, iterators>>
  /\ LET st == streams[s]
     IN IF TruncateErr(s, size) # "" THEN UNCHANGED <<fileHandles, streams>>
        ELSE /\ fileHandles' = IF size # Len(st.content) THEN Detached(s) ELSE fileHandles
             /\ streams' = [streams EXCEPT ![s] = [@ EXCEPT
                  !.content = IF size < Len(st.content) THEN Slice(st.content, size)
                              ELSE IF size > Len(st.content) THEN Extended(st.content, size)
                              ELSE st.content,
                  !.cursorPosition = Min(st.cursorPosition, size)]]

SeekErr(s, position) == IF position < 0 THEN "IndexSizeError" ELSE ""

\* a seek that stops at the end of the buffer (not what the code does)
SeekClamped(s, position) ==
  /\ s \in StreamIds
  /\ UNCHANGED <<dirs, fileHandles, accessHandles, snapshots, root, now, iterators>>
  /\ IF SeekErr(s, position) # "" THEN UNCHANGED streams
     ELSE streams' = [streams EXCEPT
            ![s].cursorPosition = Min(position, Len(streams[s].content))]

Seek(s, position) ==
  /\ s \in StreamIds
  /\ UNCHANGED <<dirs, fileHandles, accessHandles, snapshots, root, now, iterators>>
  /\ IF SeekErr(s, position) # "" THEN UNCHANGED streams
     ELSE streams' = [streams EXCEPT ![s].cursorPosition = position]

\* ------------------------------------------------------ sync access handle
\* every operation of a closed handle throws
\* new DOMException('InvalidStateError', 'The access handle is closed');
\* the constructor is DOMException(message, name), so this is the error's name
HandleClosedErr(h) == IF accessHandles[h].closed THEN "The access handle is closed" ELSE ""
\* and this its message
HandleClosedErrMessage(h) == IF accessHandles[h].closed THEN "InvalidStateError" ELSE ""

\* b.subarray(begin, end); negative indices count from the end
Subarray(b, begin, end) ==
  LET from == IF begin < 0 THEN Max(Len(b) + begin, 0) ELSE Min(begin, Len(b))
      to == IF end < 0 THEN Max(Len(b) + end, 0) ELSE Min(end, Len(b))
  IN SubSeq(b, from + 1, to)

\* createSyncAccessHandle has no throwing path
CreateSyncAccessHandleErr(f) == ""

CreateSyncAccessHandle(f) ==
  /\ f \in FileIds
  /\ CreateSyncAccessHandleErr(f) = ""
  /\ Len(accessHandles) < MaxHandles
  /\ accessHandles' = Append(accessHandles, [file |-> f, closed |-> FALSE])
  /\ UNCHANGED <<dirs, fileHandles, streams, snapshots, root, now, iterators>>

GetSizeErr(h) == HandleClosedErr(h)
GetSizeResult(h) == Len(FileContent(accessHandles[h].file))
GetSize(h) ==
  /\ h \in HandleIds
  /\ UNCHANGED vars

\* buffer: the caller's array (a Uint8Array and a DataView are filled alike);
\* n: the returned count, buf: the caller's array afterwards
ReadErr(h, buffer, at) == HandleClosedErr(h)
\* a read that always starts at the beginning of the file (not what the code does)
ReadResultFromStart(h, buffer, at) ==
  LET content == FileContent(accessHandles[h].file)
      bytesToRead == Min(Len(buffer), Len(content))
  IN [n |-> bytesToRead, buf |-> SetAt(buffer, Subarray(content, 0, bytesToRead), 0)]

ReadResult(h, buffer, at) ==
  LET content == FileContent(accessHandles[h].file)
      available == Len(content) - at
      bytesToRead == Min(Len(buffer), available)
      slice == Subarray(content, at, at + bytesToRead)
  IN IF at >= Len(content) THEN [n |-> 0, buf |-> buffer]
     ELSE [n |-> bytesToRead, buf |-> SetAt(buffer, slice, 0)]
Read(h, buffer, at) ==
  /\ h \in HandleIds
  /\ UNCHANGED vars

\* data: the caller's bytes; isDataView: they come in a DataView, which is stored
\* element by element (a store at a negative index is ignored), while
\* content.set(data, at) throws a RangeError for a negative offset
SyncWriteErr(h, data, isDataView, at) ==
  IF HandleClosedErr(h) # "" THEN HandleClosedErr(h)
  ELSE IF at < 0 /\ ~isDataView THEN "RangeError"
  ELSE ""
SyncWriteResult(h, data, isDataView, at) == Len(data)
SyncWrite(h, data, isDataView, at) ==
  /\ h \in HandleIds
  /\ UNCHANGED <<dirs, accessHandles, snapshots, root, now, iterators>>
  /\ IF HandleClosedErr(h) # "" THEN UNCHANGED <<fileHandles, streams>>
     ELSE
       LET f == accessHandles[h].file
           requiredSize == at + Len(data)
           grows == Len(FileContent(f)) < requiredSize
           room == IF grows THEN Extended(FileContent(f), requiredSize) ELSE FileContent(f)
           stored == IF at < 0 /\ ~isDataView THEN room ELSE SetAt(room, data, at)
           shared == fileHandles[f].ref # 0 /\ ~grows
       IN /\ requiredSize <= MaxLen
          /\ fileHandles' = IF shared THEN fileHandles ELSE Assigned(f, stored)
          /\ streams' = IF shared
                          THEN [streams EXCEPT ![fileHandles[f].ref].content = stored]
                          ELSE streams

SyncTruncateErr(h, size) == HandleClosedErr(h)
SyncTruncate(h, size) ==
  /\ h \in HandleIds
  /\ UNCHANGED <<dirs, streams, accessHandles, snapshots, root, now, iterators>>
  /\ IF HandleClosedErr(h) # "" THEN UNCHANGED fileHandles
     ELSE LET f == accessHandles[h].file
              content == FileContent(f)
          IN fileHandles' = IF size < Len(content) THEN Assigned(f, Slice(content, size))
                            ELSE IF size > Len(content)
                              THEN Assigned(f, Extended(content, size))
                            ELSE fileHandles

FlushErr(h) == HandleClosedErr(h)
Flush(h) ==
  /\ h \in HandleIds
  /\ UNCHANGED vars

SyncClose(h) ==
  /\ h \in HandleIds
  /\ accessHandles' = [accessHandles EXCEPT ![h].closed = TRUE]
  /\ UNCHANGED <<dirs, fileHandles, streams, snapshots, root, now, iterators>>

\* ------------------------------------------------- handles, isSameEntry, resolve
FileHandle(f) == [kind |-> "file", id |-> f]
DirectoryHandle(d) == [kind |-> "directory", id |-> d]
\* every handle ever returned, those of removed entries included
Handles == {FileHandle(f) : f \in FileIds} \cup {DirectoryHandle(d) : d \in DirIds}
HandleName(h) == IF h.kind = "file" THEN fileHandles[h.id].name ELSE dirs[h.id].name

\* the handle getFileHandle returns when it does not throw: files.get(fileName)
GetFileHandleResult(d, fileName, create) ==
  IF MapHas(dirs[d].files, fileName) THEN FileHandle(MapGet(dirs[d].files, fileName))
  ELSE FileHandle(Len(fileHandles) + 1)
\* the handle getDirectoryHandle returns when it does not throw: directories.get(dirName)
GetDirectoryHandleResult(d, dirName, create) ==
  IF MapHas(dirs[d].directories, dirName)
    THEN DirectoryHandle(MapGet(dirs[d].directories, dirName))
  ELSE DirectoryHandle(Len(dirs) + 1)

\* a.isSameEntry(other): other.name === name && other.kind === <a's kind>
IsSameEntry(a, other) == HandleName(other) = HandleName(a) /\ other.kind = a.kind

\* new Map(pairs): the pairs are set one after the other
RECURSIVE MapOf(_, _)
MapOf(m, pairs) == IF pairs = <<>> THEN m ELSE MapOf(MapSet(m, Head(pairs)[1], Head(pairs)[2]), Tail(pairs))

\* new Map([...files, ...directories]) as a sequence of <<name, handle>>
GetJoinedMaps(d) ==
  MapOf(<<>>,
        [i \in 1 .. Len(dirs[d].files) |->
           <<dirs[d].files[i][1], FileHandle(dirs[d].files[i][2])>>]
        \o [i \in 1 .. Len(dirs[d].directories) |->
           <<dirs[d].directories[i][1], DirectoryHandle(dirs[d].directories[i][2])>>])

\* what the directory's iterators yield, as sequences: [Symbol.asyncIterator]() and
\* entries() yield the pairs of getJoinedMaps(), keys() its keys, values() its values
AsyncIterator(d) == GetJoinedMaps(d)
Entries(d) == GetJoinedMaps(d)
Keys(d) == [i \in 1 .. Len(GetJoinedMaps(d)) |-> GetJoinedMaps(d)[i][1]]
Values(d) == [i \in 1 .. Len(GetJoinedMaps(d)) |-> GetJoinedMaps(d)[i][2]]

\* the four ways to iterate a directory
IteratorKinds == {"asyncIterator", "entries", "keys", "values"}

\* directory.entries(), .keys(), .values() or [Symbol.asyncIterator](): an async
\* generator object whose body has not started
Iterate(d, kind) ==
  /\ d \in DirIds
  /\ Len(iterators) < MaxIterators
  /\ iterators' = Append(iterators,
       [dir |-> d, kind |-> kind, started |-> FALSE, joinedMaps |-> <<>>, yielded |-> 0])
  /\ UNCHANGED <<dirs, fileHandles, streams, accessHandles, snapshots, root, now>>

\* next() on generator i: the first call runs getJoinedMaps() and yields from the
\* new Map, every call yields its next entry until there is none
IteratorNext(i) ==
  /\ i \in 1 .. Len(iterators)
  /\ LET it == iterators[i]
         joined == IF it.started THEN it.joinedMaps ELSE GetJoinedMaps(it.dir)
     IN iterators' = [iterators EXCEPT ![i] =
          [it EXCEPT !.started = TRUE,
                     !.joinedMaps = joined,
                     !.yielded = Min(it.yielded + 1, Len(joined))]]
  /\ UNCHANGED <<dirs, fileHandles, streams, accessHandles, snapshots, root, now>>

\* what generator i has yielded so far
Yielded(i) ==
  LET it == iterators[i]
  IN [k \in 1 .. it.yielded |->
        IF it.kind = "keys" THEN it.joinedMaps[k][1]
        ELSE IF it.kind = "values" THEN it.joinedMaps[k][2]
        ELSE it.joinedMaps[k]]

\* the result of resolve(): null or an array of names
PathOf(path) == [t |-> "path", path |-> path]

\* traverseDirectory(directory, target, path); TraverseEntries is its for-await loop
\* from the i-th entry on
RECURSIVE TraverseDirectory(_, _, _)
RECURSIVE TraverseEntries(_, _, _, _)
TraverseDirectory(d, target, path) ==
  IF IsSameEntry(DirectoryHandle(d), target) THEN PathOf(path)
  ELSE TraverseEntries(GetJoinedMaps(d), 1, target, path)
TraverseEntries(entries, i, target, path) ==
  IF i > Len(entries) THEN Null
  ELSE LET name == entries[i][1]
           handle == entries[i][2]
       IN IF handle.kind = "directory"
            THEN LET result == TraverseDirectory(handle.id, target, Append(path, name))
                 IN IF result.t # "null" THEN result
                    ELSE TraverseEntries(entries, i + 1, target, path)
          ELSE IF IsSameEntry(handle, target) THEN PathOf(Append(path, name))
          ELSE TraverseEntries(entries, i + 1, target, path)

Resolve(d, possibleDescendant) == TraverseDirectory(d, possibleDescendant, <<>>)

\* ------------------------------------------------------------------ getFile
\* a File that reports the time 0 whenever it is built (not what the code does)
GetFileResultEpoch(f) ==
  [file |-> f, name |-> fileHandles[f].name, bytes |-> FileContent(f), lastModified |-> 0]

\* new File([fileData.content], name): the File is built from a copy of the bytes
\* the array holds at the time of the call; without a lastModified option its
\* lastModified is the time of the call
GetFileResult(f) ==
  [file |-> f, name |-> fileHandles[f].name, bytes |-> FileContent(f), lastModified |-> now]

GetFile(f) ==
  /\ f \in FileIds
  /\ Len(snapshots) < MaxSnapshots
  /\ snapshots' = Append(snapshots, GetFileResult(f))
  /\ UNCHANGED <<dirs, fileHandles, streams, accessHandles, root, now, iterators>>

SnapshotIds == 1 .. Len(snapshots)
\* reading File i as a live view of its file's array (not what the code does)
SnapshotLiveView(i) == FileContent(snapshots[i].file)
\* the bytes File i yields when it is read (arrayBuffer(), text())
SnapshotBytes(i) == snapshots[i].bytes

\* ------------------------------------------------------------ storage manager
\* the usage and quota storageFactory is configured with
Usages == {0, 1}
Quotas == {0, 2}

\* storageFactory({ usage, quota }).estimate(): the two configured numbers
Estimate(usage, quota) == [usage |-> usage, quota |-> quota]

\* getSizeOfDirectory(directory); SizeOfHandles is its for-await loop over
\* directory.values() from the i-th handle on
RECURSIVE GetSizeOfDirectory(_)
RECURSIVE SizeOfHandles(_, _)
GetSizeOfDirectory(d) == SizeOfHandles(Values(d), 1)
SizeOfHandles(handles, i) ==
  IF i > Len(handles) THEN 0
  ELSE (IF handles[i].kind = "file" THEN Len(FileContent(handles[i].id))
        ELSE GetSizeOfDirectory(handles[i].id))
       + SizeOfHandles(handles, i + 1)

\* navigator.storage.getDirectory(): the root of the closure it was defined in
GetDirectory == DirectoryHandle(root)

\* resetMockOPFS(): a new directory 'root', and getDirectory redefined to return it
ResetMockOPFS ==
  /\ Len(dirs) < MaxDirs
  /\ dirs' = Append(dirs, NewDirectory("root"))
  /\ root' = Len(dirs) + 1
  /\ UNCHANGED <<fileHandles, streams, accessHandles, snapshots, now, iterators>>

\* the clock Date.now() reads moves on
Tick ==
  /\ now < MaxTime
  /\ now' = now + 1
  /\ UNCHANGED <<dirs, fileHandles, streams, accessHandles, snapshots, root, iterators>>

\* the root in the closure of the storageFactory() call of mockOPFS: the first root
StorageRoot == 1

\* estimate() of that storage in the index.ts that installs the whole storage
\* (src/unnamed/part_001): default usage 0 plus getSizeOfDirectory of the closure's
\* root, and the default quota
InstalledEstimate ==
  [usage |-> 0 + GetSizeOfDirectory(StorageRoot), quota |-> 1073741824]

\* --------------------------------------------------------- specifications
\* the caller's read buffers: capacity 0 .. MaxLen, filled with 7
ReadBuffers == {[i \in 1 .. n |-> 7] : n \in 0 .. MaxLen}

DirNext ==
  \/ \E d \in DirIds, n \in Names, b \in BOOLEAN : GetFileHandle(d, n, b)
  \/ \E d \in DirIds, n \in Names, b \in BOOLEAN : GetDirectoryHandle(d, n, b)
  \/ \E d \in DirIds, n \in Names, b \in BOOLEAN : RemoveEntry(d, n, b)

StreamNext ==
  \/ \E f \in FileIds, b \in BOOLEAN : CreateWritable(f, b)
  \/ \E s \in StreamIds, c \in Chunks : Write(s, c)
  \/ \E s \in StreamIds, i \in 1 .. MaxPending : WriteResume(s, i)
  \/ \E s \in StreamIds : Close(s)
  \/ \E s \in StreamIds, r \in Reasons : Abort(s, r)
  \/ \E s \in StreamIds, n \in Numbers : Truncate(s, n)
  \/ \E s \in StreamIds, n \in Numbers : Seek(s, n)
  \/ \E s \in StreamIds : GetWriter(s)

SyncNext ==
  \/ \E f \in FileIds : CreateSyncAccessHandle(f)
  \/ \E h \in HandleIds : GetSize(h)
  \/ \E h \in HandleIds, b \in ReadBuffers, n \in Numbers : Read(h, b, n)
  \/ \E h \in HandleIds, d \in ByteChunks, v \in BOOLEAN, n \in Numbers : SyncWrite(h, d, v, n)
  \/ \E h \in HandleIds, n \in Numbers : SyncTruncate(h, n)
  \/ \E h \in HandleIds : Flush(h)
  \/ \E h \in HandleIds : SyncClose(h)

FileNext == \E f \in FileIds : GetFile(f)

Next == DirNext \/ FileNext \/ StreamNext \/ SyncNext

Spec == Init /\ [][Next]_vars

\* the directory tree alone
SpecDir == Init /\ [][DirNext]_vars

\* one file of the root directory and its writable streams
StreamChunks ==
  {UndefinedChunk, StringChunk(<<1>>), BlobChunk(<<1>>), ViewChunk(<<1, 1>>),
   Params("write", TRUE, StringChunk(<<1>>), Num(1), Undefined),
   Params("write", TRUE, OtherChunk, Num(0), Undefined),
   Params("truncate", FALSE, UndefinedChunk, Undefined, Num(1))}
StreamSpecNext ==
  \/ GetFileHandle(1, "a", TRUE)
  \/ \E f \in FileIds, b \in BOOLEAN : CreateWritable(f, b)
  \/ \E s \in StreamIds, c \in StreamChunks : Write(s, c)
  \/ \E s \in StreamIds, i \in 1 .. MaxPending : WriteResume(s, i)
  \/ \E s \in StreamIds : Close(s)
  \/ \E s \in StreamIds : Abort(s, "undefined")
  \/ \E s \in StreamIds, n \in Numbers : Truncate(s, n)
  \/ \E s \in StreamIds, n \in Numbers : Seek(s, n)
  \/ \E s \in StreamIds : GetWriter(s)
SpecStream == Init /\ [][StreamSpecNext]_vars

\* files of the root directory and their sync access handles
SyncSpecNext ==
  \/ \E n \in Names : GetFileHandle(1, n, TRUE)
  \/ SyncNext
SpecSync == Init /\ [][SyncSpecNext]_vars

\* one file of the root directory with its streams, sync access handles and snapshots
FileChunks == {StringChunk(<<1>>)}
FileOffsets == 0 .. MaxLen - 1
FileSpecNext ==
  \/ GetFileHandle(1, "a", TRUE)
  \/ \E f \in FileIds : GetFile(f)
  \/ \E f \in FileIds, b \in BOOLEAN : CreateWritable(f, b)
  \/ \E s \in StreamIds, c \in FileChunks : Write(s, c)
  \/ \E s \in StreamIds, n \in 0 .. MaxLen : Truncate(s, n)
  \/ \E s \in StreamIds : Close(s)
  \/ \E f \in FileIds : CreateSyncAccessHandle(f)
  \/ \E h \in HandleIds, v \in BOOLEAN, n \in FileOffsets : SyncWrite(h, <<1>>, v, n)
  \/ \E h \in HandleIds, n \in 0 .. MaxLen : SyncTruncate(h, n)
SpecFile == Init /\ [][FileSpecNext]_vars

\* one file of the root directory and its streams, aborted with and without a reason
AbortSpecNext ==
  \/ GetFileHandle(1, "a", TRUE)
  \/ \E f \in FileIds, b \in BOOLEAN : CreateWritable(f, b)
  \/ \E s \in StreamIds, c \in FileChunks : Write(s, c)
  \/ \E s \in StreamIds : Close(s)
  \/ \E s \in StreamIds, r \in Reasons : Abort(s, r)
SpecAbort == Init /\ [][AbortSpecNext]_vars

\* the name "a" of the root directory, created, removed and created again, with the
\* streams and sync access handles of its files
RemoveSpecNext ==
  \/ \E b \in BOOLEAN : GetFileHandle(1, "a", b)
  \/ \E b \in BOOLEAN : RemoveEntry(1, "a", b)
  \/ \E f \in FileIds : CreateWritable(f, FALSE)
  \/ \E s \in StreamIds, c \in FileChunks : Write(s, c)
  \/ \E s \in StreamIds : Close(s)
  \/ \E f \in FileIds : CreateSyncAccessHandle(f)
  \/ \E h \in HandleIds : SyncWrite(h, <<1>>, FALSE, 0)
SpecRemove == Init /\ [][RemoveSpecNext]_vars

\* the directory trees of the global root and of the roots it replaced
ResetSpecNext ==
  \/ DirNext
  \/ ResetMockOPFS
SpecReset == Init /\ [][ResetSpecNext]_vars

\* one file of the root directory, committed to and read with getFile() while time
\* passes
ClockSpecNext ==
  \/ Tick
  \/ GetFileHandle(1, "a", TRUE)
  \/ \E f \in FileIds : GetFile(f)
  \/ \E f \in FileIds : CreateWritable(f, FALSE)
  \/ \E s \in StreamIds, c \in FileChunks : Write(s, c)
  \/ \E s \in StreamIds : Close(s)
  \/ \E f \in FileIds : CreateSyncAccessHandle(f)
  \/ \E h \in HandleIds : SyncWrite(h, <<1>>, FALSE, 0)
  \/ \E h \in HandleIds, n \in 0 .. 1 : SyncTruncate(h, n)
SpecClock == Init /\ [][ClockSpecNext]_vars

\* one file of the root directory and the cursor of its streams: raw writes,
\* WriteParams with and without a position, the seek command and seek()
SeekCommand(p) == Params("seek", FALSE, UndefinedChunk, Num(p), Undefined)
CursorChunks ==
  {StringChunk(<<1>>), StringChunk(<<233>>), ViewChunk(<<2>>),
   Params("write", TRUE, StringChunk(<<1>>), Undefined, Undefined),
   Params("write", TRUE, ViewChunk(<<2>>), Num(0), Undefined),
   Params("write", TRUE, StringChunk(<<1>>), Num(1), Undefined),
   Params("write", TRUE, UndefinedChunk, Num(1), Undefined)}
  \cup {SeekCommand(p) : p \in Numbers}
CursorSpecNext ==
  \/ GetFileHandle(1, "a", TRUE)
  \/ \E f \in FileIds, b \in BOOLEAN : CreateWritable(f, b)
  \/ \E s \in StreamIds, c \in CursorChunks : Write(s, c)
  \/ \E s \in StreamIds, n \in Numbers : Seek(s, n)
  \/ \E s \in StreamIds : Close(s)
SpecCursor == Init /\ [][CursorSpecNext]_vars

\* one file of the root directory, written through its streams and through its sync
\* access handles at offsets inside and beyond its length
WriteChunks ==
  {StringChunk(<<1>>), ViewChunk(<<2>>),
   Params("write", TRUE, ViewChunk(<<2>>), Num(1), Undefined)}
WriteSpecNext ==
  \/ GetFileHandle(1, "a", TRUE)
  \/ \E f \in FileIds, b \in BOOLEAN : CreateWritable(f, b)
  \/ \E s \in StreamIds, c \in WriteChunks : Write(s, c)
  \/ \E s \in StreamIds, n \in 0 .. MaxLen : Seek(s, n)
  \/ \E s \in StreamIds : Close(s)
  \/ \E f \in FileIds : CreateSyncAccessHandle(f)
  \/ \E h \in HandleIds, d \in ByteChunks, v \in BOOLEAN, n \in FileOffsets : SyncWrite(h, d, v, n)
SpecWrite == Init /\ [][WriteSpecNext]_vars

\* the file "a" of the root directory and the file "a" of its subdirectory "b", with
\* their streams and sync access handles
TwoFilesSpecNext ==
  \/ GetDirectoryHandle(1, "b", TRUE)
  \/ \E d \in DirIds : GetFileHandle(d, "a", TRUE)
  \/ \E f \in FileIds : CreateWritable(f, TRUE)
  \/ \E s \in StreamIds, c \in FileChunks : Write(s, c)
  \/ \E s \in StreamIds : Close(s)
  \/ \E f \in FileIds : CreateSyncAccessHandle(f)
  \/ \E h \in HandleIds, n \in FileOffsets : SyncWrite(h, <<2>>, FALSE, n)
  \/ \E h \in HandleIds : SyncClose(h)
SpecTwoFiles == Init /\ [][TwoFilesSpecNext]_vars

\* the root directory's children being created and removed while it is iterated
IterateSpecNext ==
  \/ \E n \in Names : GetFileHandle(1, n, TRUE)
  \/ \E n \in Names : GetDirectoryHandle(1, n, TRUE)
  \/ \E n \in Names : RemoveEntry(1, n, TRUE)
  \/ \E k \in IteratorKinds : Iterate(1, k)
  \/ \E i \in 1 .. Len(iterators) : IteratorNext(i)
SpecIterate == Init /\ [][IterateSpecNext]_vars

\* the global storage: resets, files of the old and new roots, and bytes committed
\* to them
StorageSpecNext ==
  \/ ResetMockOPFS
  \/ \E d \in DirIds : GetFileHandle(d, "a", TRUE)
  \/ \E f \in FileIds : CreateSyncAccessHandle(f)
  \/ \E h \in HandleIds, d \in {<<1>>, <<2, 1>>} : SyncWrite(h, d, FALSE, 0)
  \/ \E h \in HandleIds : SyncTruncate(h, 0)
  \/ \E h \in HandleIds : SyncClose(h)
SpecStorage == Init /\ [][StorageSpecNext]_vars

\* ------------------------------------------------------------------ claims
Open(s) == ~streams[s].isClosed /\ ~streams[s].isAborted

\* C1: a step of a stream that is open (a write, a resumed write, a seek, a truncate,
\* an abort) leaves the committed content of every file as it was; the only step of
\* an open stream that changes committed content is its successful close().
C1_OpenStreamLeavesCommitted ==
  [][\A s \in StreamIds :
       (Open(s) /\ streams'[s] # streams[s]) =>
         \/ Committed' = Committed /\ ~streams'[s].isClosed
         \/ streams'[s].isClosed /\ CloseErr(s) = ""]_vars
\* an open stream has written a buffer that differs from the non-empty committed content
C1_Witness ==
  \E s \in StreamIds :
    /\ Open(s)
    /\ streams[s].content # <<>>
    /\ FileContent(streams[s].file) # <<>>
    /\ FileContent(streams[s].file) # streams[s].content

\* C2: whatever other streams are or were open on the file, a successful close() makes
\* the committed content exactly the closing stream's working buffer, so after every
\* stream has closed the content is the buffer of the one that closed last.
C2_LastCloseWins ==
  [][\A s \in StreamIds :
       (~streams[s].isClosed /\ streams'[s].isClosed) =>
         FileContent(streams[s].file)' = streams[s].content]_vars
\* two streams of one file have both closed with different buffers; the file holds the
\* buffer of the one that closed last
C2_Witness ==
  \E s, t \in StreamIds :
    /\ s # t
    /\ streams[s].file = streams[t].file
    /\ streams[s].isClosed /\ streams[t].isClosed
    /\ streams[s].content # <<>> /\ streams[t].content # <<>>
    /\ streams[s].content # streams[t].content
    /\ fileHandles[streams[s].file].ref = s
    /\ FileContent(streams[s].file) = streams[s].content

C4_TerminalRejectsAll ==
  /\ [](\A s \in StreamIds :
         (streams[s].isClosed \/ streams[s].isAborted) =>
           /\ \A c \in Chunks : WriteErr(s, c) # ""
           /\ \A n \in Numbers : TruncateErr(s, n) # "" /\ SeekErr(s, n) # ""
           /\ CloseErr(s) # "")
  /\ [][\A s \in StreamIds :
          (streams[s].isClosed \/ streams[s].isAborted) =>
            (((\E c \in Chunks : Write(s, c))
               \/ (\E n \in Numbers : Truncate(s, n))
               \/ (\E n \in Numbers : Seek(s, n))
               \/ Close(s))
             => streams' = streams /\ Committed' = Committed)]_vars

OpenHandles(f) == {h \in HandleIds : accessHandles[h].file = f /\ ~accessHandles[h].closed}

\* C5: a file never has two open sync access handles: createSyncAccessHandle() on a
\* file that has an open handle fails with InvalidStateError and creates no handle.
C5_ExclusiveHandle ==
  /\ [](\A f \in FileIds :
         /\ Cardinality(OpenHandles(f)) <= 1
         /\ OpenHandles(f) # {} => CreateSyncAccessHandleErr(f) = "InvalidStateError")
  /\ [][\A f \in FileIds :
          (OpenHandles(f) # {} /\ CreateSyncAccessHandle(f)) => accessHandles' = accessHandles]_vars

\* C6: a file is locked (createSyncAccessHandle() on it fails) exactly while one of
\* its sync access handles is open; closing the open handle unlocks it.
C6_LockedWhileOpen ==
  /\ [](\A f \in FileIds : (CreateSyncAccessHandleErr(f) # "") <=> (OpenHandles(f) # {}))
  /\ [][\A h \in HandleIds :
          (~accessHandles[h].closed /\ accessHandles'[h].closed) =>
            (CreateSyncAccessHandleErr(accessHandles[h].file) = "")']_vars

\* C7: on a closed sync access handle getSize, read, write, truncate and flush fail
\* with an error named InvalidStateError and leave the committed content unchanged.
C7_ClosedHandleRejects ==
  /\ [](\A h \in HandleIds :
         accessHandles[h].closed =>
           /\ GetSizeErr(h) = "InvalidStateError"
           /\ FlushErr(h) = "InvalidStateError"
           /\ \A n \in Numbers : SyncTruncateErr(h, n) = "InvalidStateError"
           /\ \A b \in ReadBuffers, n \in Numbers : ReadErr(h, b, n) = "InvalidStateError"
           /\ \A d \in ByteChunks, v \in BOOLEAN, n \in Numbers :
                SyncWriteErr(h, d, v, n) = "InvalidStateError")
  /\ [][\A h \in HandleIds :
          (accessHandles[h].closed
             /\ \/ \E d \in ByteChunks, v \in BOOLEAN, n \in Numbers : SyncWrite(h, d, v, n)
                \/ \E n \in Numbers : SyncTruncate(h, n))
            => Committed' = Committed]_vars

\* C8: in no directory is a name a key of the files map and of the directories map
\* at the same time.
C8_NoNameClash ==
  \A d \in DirIds : MapKeys(dirs[d].files) \cap MapKeys(dirs[d].directories) = {}

\* C9: getFileHandle(name) fails with TypeMismatchError when name is a subdirectory,
\* getDirectoryHandle(name) fails with TypeMismatchError when name is a file, with or
\* without create, and neither changes the directory.
C9_TypeMismatch ==
  /\ [](\A d \in DirIds, n \in Names, b \in BOOLEAN :
         /\ MapHas(dirs[d].directories, n) => GetFileHandleErr(d, n, b) = "TypeMismatchError"
         /\ MapHas(dirs[d].files, n) => GetDirectoryHandleErr(d, n, b) = "TypeMismatchError")
  /\ [][\A d \in DirIds, n \in Names, b \in BOOLEAN :
          /\ (MapHas(dirs[d].directories, n) /\ GetFileHandle(d, n, b)) => dirs' = dirs
          /\ (MapHas(dirs[d].files, n) /\ GetDirectoryHandle(d, n, b)) => dirs' = dirs]_vars

HasChild(d) == dirs[d].files # <<>> \/ dirs[d].directories # <<>>

\* C10: removeEntry(name) of a subdirectory that has a child fails with
\* InvalidModificationError without recursive and changes nothing; with recursive it
\* succeeds and the subdirectory is no longer a child of the parent.
C10_RemoveNonEmpty ==
  /\ [](\A d \in DirIds, n \in Names :
         (MapHas(dirs[d].directories, n) /\ HasChild(MapGet(dirs[d].directories, n))) =>
           /\ RemoveEntryErr(d, n, FALSE) = "InvalidModificationError"
           /\ RemoveEntryErr(d, n, TRUE) = "")
  /\ [][\A d \in DirIds, n \in Names :
          (MapHas(dirs[d].directories, n) /\ HasChild(MapGet(dirs[d].directories, n))) =>
            /\ RemoveEntry(d, n, FALSE) => dirs' = dirs
            /\ RemoveEntry(d, n, TRUE) =>
                 MapGet(dirs[d].directories, n) \notin MapValues(dirs'[d].directories)]_vars

\* C11: removeEntry(name) without recursive on a subdirectory that has no child
\* succeeds and removes it, so that getDirectoryHandle(name) then throws NotFoundError.
C11_RemoveEmptyDirectory ==
  /\ [](\A d \in DirIds, n \in Names :
         (MapHas(dirs[d].directories, n) /\ ~HasChild(MapGet(dirs[d].directories, n))) =>
           RemoveEntryErr(d, n, FALSE) = "")
  /\ [][\A d \in DirIds, n \in Names :
          (MapHas(dirs[d].directories, n) /\ ~HasChild(MapGet(dirs[d].directories, n))
             /\ ~MapHas(dirs[d].files, n) /\ dirs' # dirs /\ RemoveEntry(d, n, FALSE)) =>
            (GetDirectoryHandleErr(d, n, FALSE) = "NotFoundError")']_vars

\* C12: isSameEntry is identity: a.isSameEntry(b) is true exactly when a and b are
\* handles of the same entry.
C12_SameEntryIsIdentity ==
  \A a \in Handles, b \in Handles : IsSameEntry(a, b) <=> a = b

\* following the names of path from directory d leads to the entry of target itself
RECURSIVE LeadsTo(_, _, _)
LeadsTo(d, path, target) ==
  IF path = <<>> THEN target = DirectoryHandle(d)
  ELSE LET n == Head(path)
       IN \/ /\ Len(path) = 1 /\ target.kind = "file"
             /\ MapHas(dirs[d].files, n) /\ MapGet(dirs[d].files, n) = target.id
          \/ /\ MapHas(dirs[d].directories, n)
             /\ LeadsTo(MapGet(dirs[d].directories, n), Tail(path), target)
Paths == UNION {[1 .. k -> Names] : k \in 0 .. Len(dirs)}
InSubtree(d, target) == \E path \in Paths : LeadsTo(d, path, target)

\* C13: resolve(target) is the empty path for the directory itself, null for a target
\* outside the directory's subtree, and otherwise a path that leads to the target.
C13_ResolveFindsTarget ==
  \A d \in DirIds, target \in Handles :
    LET result == Resolve(d, target)
    IN /\ target = DirectoryHandle(d) => result = PathOf(<<>>)
       /\ ~InSubtree(d, target) => result.t = "null"
       /\ InSubtree(d, target) => result.t = "path" /\ LeadsTo(d, result.path, target)

\* C14: a File returned by getFile() holds the bytes that were committed when it was
\* taken, and keeps them whatever is committed to the file later (a stream's close,
\* a sync access handle's write or truncate).
C14_SnapshotImmutable ==
  [][/\ \A i \in SnapshotIds : SnapshotBytes(i)' = SnapshotBytes(i)
     /\ Len(snapshots') > Len(snapshots) =>
          LET taken == snapshots'[Len(snapshots')]
          IN taken.bytes = FileContent(taken.file)]_vars
\* a File taken of non-empty content, after which the file's content was changed
C14_Witness ==
  \E i \in SnapshotIds :
    /\ snapshots[i].bytes # <<>>
    /\ FileContent(snapshots[i].file) # snapshots[i].bytes
    /\ Len(FileContent(snapshots[i].file)) = Len(snapshots[i].bytes)

\* C15: createWritable({keepExistingData: true}) starts with a copy of the committed
\* content and the cursor at its end; without the option it starts with an empty
\* buffer and cursor 0 whatever the file holds, so its close() leaves exactly the
\* stream's buffer as the committed content.
C15_InitialBuffer ==
  [][/\ \A f \in FileIds, b \in BOOLEAN :
          CreateWritable(f, b) =>
            LET new == streams'[Len(streams')]
            IN /\ new.file = f /\ ~new.isClosed /\ ~new.isAborted
               /\ new.content = IF b THEN FileContent(f) ELSE <<>>
               /\ new.cursorPosition = IF b THEN Len(FileContent(f)) ELSE 0
               /\ fileHandles'[f].ref # Len(streams')
               /\ Committed' = Committed
     /\ \A s \in StreamIds :
          (~streams[s].isClosed /\ streams'[s].isClosed) =>
            Committed'[streams[s].file] = streams[s].content]_vars
\* on a file with content, one open stream still holds the copy it started with and
\* another one started empty
C15_Witness ==
  \E s, t \in StreamIds :
    /\ Open(s) /\ Open(t) /\ streams[s].file = streams[t].file
    /\ FileContent(streams[s].file) # <<>>
    /\ streams[s].content = FileContent(streams[s].file)
    /\ streams[s].cursorPosition = Len(streams[s].content)
    /\ streams[t].content = <<>> /\ streams[t].cursorPosition = 0

\* C16: on an open sync access handle, write(b, {at: p}) with p >= 0 returns len(b),
\* and a read into a buffer of len(b) bytes with {at: p} right after it returns len(b)
\* and fills the buffer with b, whatever the file held before.
C16_WriteThenRead ==
  [][\A h \in HandleIds, b \in ByteChunks, v \in BOOLEAN, p \in 0 .. MaxLen :
       (~accessHandles[h].closed /\ SyncWrite(h, b, v, p)) =>
         /\ SyncWriteErr(h, b, v, p) = "" /\ SyncWriteResult(h, b, v, p) = Len(b)
         /\ ReadErr(h, [i \in 1 .. Len(b) |-> 7], p)' = ""
         /\ ReadResult(h, [i \in 1 .. Len(b) |-> 7], p)' = [n |-> Len(b), buf |-> b]]_vars
\* an open handle's file holds a byte written behind a gap: a write at an offset
\* beyond the old end
C16_Witness ==
  \E h \in HandleIds :
    /\ ~accessHandles[h].closed
    /\ FileContent(accessHandles[h].file) = <<0, 1>>

\* new is old cut or zero-padded to length n
TruncatedTo(old, new, n) ==
  /\ Len(new) = n
  /\ \A i \in 1 .. n : new[i] = IF i <= Len(old) THEN old[i] ELSE 0

\* C17: truncate(n) with n >= 0 leaves a buffer of length exactly n that keeps the old
\* bytes below n and is zero from the old length on, on a stream's working buffer
\* and on the committed content through a sync access handle alike.
C17_TruncateLength ==
  [][/\ \A s \in StreamIds, n \in 0 .. MaxLen :
          ((streams'[s] # streams[s] \/ n = Len(streams[s].content)) /\ Truncate(s, n)) =>
            /\ TruncateErr(s, n) = ""
            /\ TruncatedTo(streams[s].content, streams'[s].content, n)
     /\ \A h \in HandleIds, n \in 0 .. MaxLen :
          (/\ ~accessHandles[h].closed
           /\ fileHandles' # fileHandles \/ n = Len(Committed[accessHandles[h].file])
           /\ SyncTruncate(h, n)) =>
            /\ SyncTruncateErr(h, n) = ""
            /\ TruncatedTo(Committed[accessHandles[h].file],
                           Committed'[accessHandles[h].file], n)]_vars
\* a stream's buffer and a file's committed content that were both truncated to a
\* greater length
C17_Witness ==
  \E s \in StreamIds :
    /\ Open(s)
    /\ streams[s].content = <<1, 0>> /\ streams[s].cursorPosition = 1
    /\ FileContent(streams[s].file) = <<0, 0>>

\* C18: after abort(r) with a non-empty reason r every write() on the stream throws
\* an error whose message is r; a further abort succeeds, changes nothing and does
\* not replace r.
C18_AbortReason ==
  /\ [](\A s \in StreamIds :
         streams[s].isAborted =>
           \A c \in Chunks : WriteErr(s, c) = "Error" /\ WriteErrMessage(s, c) = streams[s].abortReason)
  /\ [][\A s \in StreamIds :
          /\ \A r \in Reasons \ {"undefined", ""} :
               (~streams[s].isAborted /\ streams'[s].isAborted /\ Abort(s, r)) =>
                 streams'[s].abortReason = r
          /\ streams[s].isAborted =>
               /\ streams'[s].isAborted /\ streams'[s].abortReason = streams[s].abortReason
               /\ \A r \in Reasons : Abort(s, r) => streams' = streams]_vars
\* two streams aborted with different reasons
C18_Witness ==
  \E s, t \in StreamIds :
    /\ streams[s].isAborted /\ streams[s].abortReason = "r1"
    /\ streams[t].isAborted /\ streams[t].abortReason = "r2"

\* name is neither a file nor a subdirectory of directory d
Absent(d, name) == ~MapHas(dirs[d].files, name) /\ ~MapHas(dirs[d].directories, name)
\* the files that are a child of some directory
AttachedFiles == UNION {MapValues(dirs[d].files) : d \in DirIds}

\* C19: on a name that is neither a file nor a subdirectory, getFileHandle and
\* getDirectoryHandle without create and removeEntry throw NotFoundError, and the
\* call changes nothing: no entry is created or removed.
C19_NotFound ==
  /\ [](\A d \in DirIds, n \in Names :
         Absent(d, n) =>
           /\ GetFileHandleErr(d, n, FALSE) = "NotFoundError"
           /\ GetDirectoryHandleErr(d, n, FALSE) = "NotFoundError"
           /\ \A b \in BOOLEAN : RemoveEntryErr(d, n, b) = "NotFoundError")
  /\ [][\A d \in DirIds, n \in Names :
          (Absent(d, n)
             /\ \/ GetFileHandle(d, n, FALSE)
                \/ GetDirectoryHandle(d, n, FALSE)
                \/ \E b \in BOOLEAN : RemoveEntry(d, n, b))
            => dirs' = dirs /\ fileHandles' = fileHandles]_vars
\* a directory that holds "a" and from which file "b" was removed
C19_Witness ==
  \E d \in DirIds :
    /\ Absent(d, "b") /\ ~Absent(d, "a")
    /\ \E f \in FileIds \ AttachedFiles : fileHandles[f].name = "b"

\* C20: getFileHandle(name, {create: true}) creates an empty file only when the
\* directory holds nothing called name; on a name that is a file it returns that file
\* and changes nothing, so a second call has no further effect; likewise
\* getDirectoryHandle and subdirectories.
C20_CreateOnlyWhenAbsent ==
  /\ [](\A d \in DirIds, n \in Names :
         /\ MapHas(dirs[d].files, n) =>
              /\ GetFileHandleErr(d, n, TRUE) = ""
              /\ GetFileHandleResult(d, n, TRUE) = FileHandle(MapGet(dirs[d].files, n))
         /\ MapHas(dirs[d].directories, n) =>
              /\ GetDirectoryHandleErr(d, n, TRUE) = ""
              /\ GetDirectoryHandleResult(d, n, TRUE) =
                   DirectoryHandle(MapGet(dirs[d].directories, n)))
  /\ [][\A d \in DirIds, n \in Names :
          /\ GetFileHandle(d, n, TRUE) =>
               IF Absent(d, n)
                 THEN /\ fileHandles' = Append(fileHandles, NewFile(n))
                      /\ MapGet(dirs'[d].files, n) = Len(fileHandles')
                      /\ Committed'[Len(fileHandles')] = <<>>
                 ELSE dirs' = dirs /\ fileHandles' = fileHandles
          /\ GetDirectoryHandle(d, n, TRUE) =>
               IF Absent(d, n)
                 THEN /\ dirs'[Len(dirs')] = NewDirectory(n)
                      /\ MapGet(dirs'[d].directories, n) = Len(dirs')
                 ELSE dirs' = dirs /\ fileHandles' = fileHandles]_vars

\* C21: removeEntry(name) on a file never throws, with or without recursive and
\* whatever streams or handles are open on the file; it takes the name out of the
\* directory and leaves the file, its streams and its handles as they are, so
\* getFileHandle(name) then throws NotFoundError; getFileHandle(name, {create: true})
\* then makes a new empty file, and a commit to a removed file does not change a
\* file of the directory
C21_RemoveFileDetaches ==
  /\ [](\A d \in DirIds, n \in Names, b \in BOOLEAN :
          MapHas(dirs[d].files, n) => RemoveEntryErr(d, n, b) = "")
  /\ [][\A d \in DirIds, n \in Names, b \in BOOLEAN :
          (MapHas(dirs[d].files, n) /\ RemoveEntry(d, n, b)) =>
            /\ ~MapHas(dirs'[d].files, n)
            /\ GetFileHandleErr(d, n, FALSE)' = "NotFoundError"
            /\ fileHandles' = fileHandles
            /\ streams' = streams
            /\ accessHandles' = accessHandles]_vars
  /\ [][\A d \in DirIds, n \in Names, g \in 1 .. MaxFiles :
          (~MapHas(dirs[d].files, n) /\ GetFileHandle(d, n, TRUE) /\ g = Len(fileHandles) + 1) =>
            /\ Len(fileHandles') = g
            /\ MapGet(dirs'[d].files, n) = g
            /\ FileContent(g)' = <<>>]_vars
  /\ [][\A f \in FileIds, g \in FileIds :
          (f \notin AttachedFiles /\ g \in AttachedFiles /\ FileContent(f)' # FileContent(f)) =>
            FileContent(g)' = FileContent(g)]_vars
\* a removed file "a" that holds committed bytes next to the empty file "a" created
\* after it, with a stream or a handle open on the removed one
C21_Witness ==
  \E f \in FileIds, g \in FileIds :
    /\ f \notin AttachedFiles /\ g \in AttachedFiles
    /\ fileHandles[f].name = fileHandles[g].name
    /\ FileContent(f) # <<>> /\ FileContent(g) = <<>>
    /\ \/ \E s \in StreamIds : streams[s].file = f /\ streams[s].isClosed
       \/ \E h \in HandleIds : accessHandles[h].file = f /\ ~accessHandles[h].closed

\* the children of directory d: its files, then its subdirectories, as <<name, handle>>
Children(d) ==
  [i \in 1 .. Len(dirs[d].files) |->
     <<dirs[d].files[i][1], FileHandle(dirs[d].files[i][2])>>]
  \o [i \in 1 .. Len(dirs[d].directories) |->
     <<dirs[d].directories[i][1], DirectoryHandle(dirs[d].directories[i][2])>>]

\* C22: entries(), keys(), values() and the async iterator of a directory yield the
\* same sequence of children, each child once: the files in the order of their
\* creation, then the subdirectories in the order of their creation.
C22_IterationOrder ==
  \A d \in DirIds :
    /\ Entries(d) = Children(d)
    /\ AsyncIterator(d) = Children(d)
    /\ Keys(d) = [i \in 1 .. Len(Children(d)) |-> Children(d)[i][1]]
    /\ Values(d) = [i \in 1 .. Len(Children(d)) |-> Children(d)[i][2]]
    /\ \A i, j \in 1 .. Len(dirs[d].files) :
         i < j => dirs[d].files[i][2] < dirs[d].files[j][2]
    /\ \A i, j \in 1 .. Len(dirs[d].directories) :
         i < j => dirs[d].directories[i][2] < dirs[d].directories[j][2]

\* the sum of the committed content lengths of the files reachable from directory d
RECURSIVE TotalSize(_)
RECURSIVE SumOfFiles(_, _)
RECURSIVE SumOfDirectories(_, _)
TotalSize(d) == SumOfFiles(dirs[d].files, 1) + SumOfDirectories(dirs[d].directories, 1)
SumOfFiles(m, i) ==
  IF i > Len(m) THEN 0 ELSE Len(FileContent(m[i][2])) + SumOfFiles(m, i + 1)
SumOfDirectories(m, i) ==
  IF i > Len(m) THEN 0 ELSE TotalSize(m[i][2]) + SumOfDirectories(m, i + 1)

\* C23: estimate().usage is the configured usage plus the sum of the committed content
\* lengths of the files reachable from the root at the time of the call, and
\* estimate().quota is the configured quota.
C23_EstimateSumsFiles ==
  \A usage \in Usages, quota \in Quotas :
    /\ Estimate(usage, quota).usage = usage + TotalSize(root)
    /\ Estimate(usage, quota).quota = quota

\* the roots getDirectory() returned before a reset
OldRoots == {d \in DirIds : dirs[d].name = "root" /\ d # root}

\* C24: getDirectory() returns another entry only by resetMockOPFS(); after a reset it
\* returns a new directory without children that isSameEntry tells apart from every
\* root returned before; no entry is below both an old root and the current root, and
\* a change made to an old root leaves the current root as it is.
C24_ResetGivesFreshRoot ==
  /\ [][GetDirectory' # GetDirectory =>
          /\ ResetMockOPFS
          /\ GetDirectory'.id \notin DirIds
          /\ dirs'[GetDirectory'.id] = NewDirectory("root")
          /\ \A old \in DirIds :
               dirs[old].name = "root" => ~IsSameEntry(DirectoryHandle(old), GetDirectory)']_vars
  /\ [](\A old \in OldRoots, h \in Handles : ~(InSubtree(old, h) /\ InSubtree(root, h)))
  /\ [][\A old \in OldRoots : dirs'[old] # dirs[old] => dirs'[root] = dirs[root]]_vars

\* C25: getWriter() of a stream returns a writer (whose writes then reach the file
\* like the stream's own write()).
C25_GetWriterReturns ==
  \A s \in StreamIds : Open(s) => GetWriterErr(s) = ""

C27_SeekCommand ==
  /\ [](\A s \in StreamIds, p \in Numbers :
          Open(s) => (WriteErr(s, SeekCommand(p)) = "" <=> p >= 0)
                     /\ (WriteErr(s, SeekCommand(p)) = "" <=> SeekErr(s, p) = ""))
  /\ [][\A s \in StreamIds, p \in Numbers :
          (Open(s) /\ p >= 0 /\ Write(s, SeekCommand(p))) =>
            /\ streams'[s].cursorPosition = p
            /\ streams'[s].content = streams[s].content
            /\ Seek(s, p)]_vars

\* C28: createWritable({keepExistingData: true}) on a file on which another stream is
\* open with uncommitted writes starts with the committed content, not with that
\* stream's buffer; no write to one stream changes the buffer of another; and a stream
\* that closes after another stream of the file has committed leaves its own buffer as
\* the content, without the other stream's data.
C28_SeededFromCommitted ==
  /\ [][\A f \in FileIds, t \in StreamIds :
          (Open(t) /\ streams[t].file = f /\ CreateWritable(f, TRUE)) =>
            LET new == streams'[Len(streams')]
            IN /\ new.content = Committed[f]
               /\ new.cursorPosition = Len(Committed[f])
               /\ streams'[t] = streams[t]]_vars
  /\ [][\A s, t \in StreamIds :
          (s # t /\ streams'[t].content # streams[t].content) =>
            streams'[s].content = streams[s].content]_vars
  /\ [][\A s, t \in StreamIds :
          (/\ s # t /\ streams[s].file = streams[t].file
           /\ streams[t].isClosed /\ fileHandles[streams[t].file].ref = t
           /\ ~streams[s].isClosed /\ streams'[s].isClosed) =>
            /\ Committed'[streams[s].file] = streams[s].content
            /\ fileHandles'[streams[s].file].ref = s]_vars
\* two open streams of a file with content: one holds writes that are not committed,
\* the other holds the committed content and none of those writes
C28_Witness ==
  \E s, t \in StreamIds :
    /\ Open(s) /\ Open(t) /\ streams[s].file = streams[t].file
    /\ Committed[streams[s].file] # <<>>
    /\ streams[t].content # <<>>
    /\ streams[t].content # Committed[streams[s].file]
    /\ streams[s].content = Committed[streams[s].file]
    /\ streams[s].cursorPosition = Len(streams[s].content)

\* the chunks that write data: raw data and WriteParams of type "write"
IsWrite(chunk) ==
  \/ IsSyncData(chunk)
  \/ chunk.kind = "params" /\ chunk.type = "write" /\ chunk.hasData
\* the offset such a write names and the bytes it carries
WriteOffset(s, chunk) ==
  IF chunk.kind = "params" /\ chunk.position # Undefined THEN chunk.position.n
  ELSE streams[s].cursorPosition
WriteBytes(chunk) ==
  IF chunk.kind # "params" THEN Encoded(chunk)
  ELSE IF IsSyncData(chunk.data) THEN Encoded(chunk.data)
  ELSE <<>>

C30_Seek ==
  /\ [](\A s \in StreamIds, p \in Numbers :
          Open(s) => SeekErr(s, p) = IF p < 0 THEN "IndexSizeError" ELSE "")
  /\ [][\A s \in StreamIds, p \in 0 .. MaxLen :
          (Open(s) /\ Seek(s, p)) =>
            /\ streams'[s] = [streams[s] EXCEPT !.cursorPosition = p]
            /\ fileHandles' = fileHandles]_vars
  /\ [][\A s \in StreamIds, chunk \in CursorChunks :
          (/\ Open(s) /\ IsSyncData(chunk) /\ Write(s, chunk)
           /\ streams[s].cursorPosition > Len(streams[s].content)) =>
            /\ \A i \in 1 .. Len(streams[s].content) :
                 streams'[s].content[i] = streams[s].content[i]
            /\ \A i \in Len(streams[s].content) + 1 .. streams[s].cursorPosition :
                 streams'[s].content[i] = 0]_vars
\* one open stream has its cursor beyond the end of its buffer, another holds a byte
\* written behind a gap of one zero
C30_Witness ==
  \E s, t \in StreamIds :
    /\ Open(s) /\ streams[s].cursorPosition > Len(streams[s].content)
    /\ Open(t) /\ streams[t].content = <<0, 2>> /\ streams[t].cursorPosition = 2

\* C31: a stream call that throws (write, seek, truncate) leaves the stream's buffer,
\* cursor and flags and the committed content of every file as they were.
C31_RejectedChangesNothing ==
  /\ [][\A s \in StreamIds, chunk \in StreamChunks :
          (WriteErr(s, chunk) # "" /\ Write(s, chunk)) =>
            streams' = streams /\ Committed' = Committed]_vars
  /\ [][\A s \in StreamIds, n \in Numbers :
          (SeekErr(s, n) # "" /\ Seek(s, n)) =>
            streams' = streams /\ Committed' = Committed]_vars
  /\ [][\A s \in StreamIds, n \in Numbers :
          (TruncateErr(s, n) # "" /\ Truncate(s, n)) =>
            streams' = streams /\ Committed' = Committed]_vars

\* old with n bytes replaced from offset p on: the length is max(len(old), p + n),
\* and outside [p, p + n) a byte is the old one below the old length and 0 above it
OnlyRangeChanged(old, new, p, n) ==
  /\ Len(new) = Max(Len(old), p + n)
  /\ \A i \in 1 .. Len(new) :
       (i <= p \/ i > p + n) => new[i] = (IF i <= Len(old) THEN old[i] ELSE 0)

\* C32: a write of n bytes at offset p >= 0, by a stream on its working buffer or by a
\* sync access handle on the committed content, changes only the bytes in [p, p + n):
\* the other bytes below the old length keep their value, the bytes between the old
\* length and p are 0, and the new length is max(old length, p + n).
C32_WriteFrame ==
  /\ [][\A s \in StreamIds :
          (Open(s) /\ streams'[s] # streams[s]) =>
            \A chunk \in WriteChunks :
              Write(s, chunk) =>
                OnlyRangeChanged(streams[s].content, streams'[s].content,
                                 WriteOffset(s, chunk), Len(WriteBytes(chunk)))]_vars
  /\ [][(accessHandles' = accessHandles /\ Len(fileHandles') = Len(fileHandles)
          /\ Committed' # Committed) =>
          \A h \in HandleIds, d \in ByteChunks, v \in BOOLEAN, p \in FileOffsets :
            (~accessHandles[h].closed /\ SyncWrite(h, d, v, p)) =>
              \A f \in FileIds :
                f = accessHandles[h].file =>
                  OnlyRangeChanged(Committed[f], Committed'[f], p, Len(d))]_vars
\* an open stream holds a byte behind a gap of one zero, and an open handle's file
\* holds two bytes of which a write replaced the first
C32_Witness ==
  /\ \E s \in StreamIds : Open(s) /\ streams[s].content = <<0, 2>>
  /\ \E h \in HandleIds :
       ~accessHandles[h].closed /\ Committed[accessHandles[h].file] = <<1, 1>>

\* C33: on an open sync access handle, read(dst, {at}) with at >= 0 does not throw and
\* returns n = min(capacity of dst, max(0, length - at)); afterwards the first n bytes
\* of dst are the file's bytes from offset at on and the rest of dst is as it was; n
\* is 0 when at >= length or dst has no capacity; the call changes no state.
C33_Read ==
  /\ [](\A h \in HandleIds, dst \in ReadBuffers, at \in 0 .. MaxLen :
          ~accessHandles[h].closed =>
            LET content == Committed[accessHandles[h].file]
                n == Min(Len(dst), Max(0, Len(content) - at))
                result == ReadResult(h, dst, at)
            IN /\ ReadErr(h, dst, at) = ""
               /\ result.n = n
               /\ (at >= Len(content) \/ Len(dst) = 0) => n = 0
               /\ Len(result.buf) = Len(dst)
               /\ \A i \in 1 .. Len(dst) :
                    result.buf[i] = IF i <= n THEN content[at + i] ELSE dst[i])
  /\ [][\A h \in HandleIds, dst \in ReadBuffers, at \in 0 .. MaxLen :
          Read(h, dst, at) => Committed' = Committed]_vars
\* an open handle on a file of two bytes: a read of two bytes at offset 1 returns 1,
\* fills the first byte of the buffer and leaves the second
C33_Witness ==
  \E h \in HandleIds :
    /\ ~accessHandles[h].closed
    /\ Committed[accessHandles[h].file] = <<2, 1>>
    /\ ReadResult(h, <<7, 7>>, 1) = [n |-> 1, buf |-> <<1, 7>>]
    /\ ReadResult(h, <<7, 7>>, 2) = [n |-> 0, buf |-> <<7, 7>>]

\* stream s after its first pending write has settled in the streams state `base`
\* (lines 564-573 run for the awaited text)
Settled(base, s) ==
  Stored([base EXCEPT ![s].pending = Tail(@)], s, Utf8(base[s].pending[1]))[s]

\* C34: a seek or a raw write issued on a stream while an earlier write of that
\* stream is still awaiting its Blob leaves the same buffer and cursor, once the
\* earlier write has settled, as the two calls run one after the other in issue order.
C34_WriteAtomic ==
  [][\A s \in StreamIds :
       (Open(s) /\ streams[s].pending # <<>> /\ streams'[s] # streams[s]
        /\ streams'[s].pending = streams[s].pending) =>
         /\ \A p \in 0 .. MaxLen :
              Seek(s, p) =>
                Settled(streams', s) = [Settled(streams, s) EXCEPT !.cursorPosition = p]
         /\ \A chunk \in {c \in StreamChunks : IsSyncData(c)} :
              Write(s, chunk) =>
                Settled(streams', s) =
                  Stored([streams EXCEPT ![s] = Settled(streams, s)], s, Encoded(chunk))[s]]_vars

\* C35: a closed stream stays closed and never becomes aborted: no stream is closed
\* and aborted at once, abort() on a closed stream changes neither the stream nor any
\* committed content, and write() on a closed stream throws the TypeError of a closed
\* stream.
C35_ClosedIsTerminal ==
  /\ [](\A s \in StreamIds :
          /\ ~(streams[s].isClosed /\ streams[s].isAborted)
          /\ streams[s].isClosed => \A c \in FileChunks : WriteErr(s, c) = "TypeError")
  /\ [][\A s \in StreamIds, r \in Reasons :
          (streams[s].isClosed /\ Abort(s, r)) =>
            streams' = streams /\ Committed' = Committed]_vars

\* C36: no step of a stream that has closed changes the committed content of a file,
\* the settling of a write that was awaiting its Blob when the stream closed included.
C36_ClosedStreamLeavesCommitted ==
  [][\A s \in StreamIds :
       (streams[s].isClosed /\ streams'[s] # streams[s]) => Committed' = Committed]_vars

\* the files whose committed content the step changes
ChangedFiles == {f \in FileIds : Committed'[f] # Committed[f]}

\* C37: a step of a stream or of a sync access handle (its creation included) changes
\* no directory and creates no file, and the only committed content it can change is
\* that of the stream's or handle's own file, also when another file has the same name.
C37_OtherEntriesUnchanged ==
  [][(streams' # streams \/ accessHandles' # accessHandles \/ ChangedFiles # {}) =>
       /\ dirs' = dirs
       /\ Len(fileHandles') = Len(fileHandles)
       /\ \A s \in StreamIds :
            streams'[s] # streams[s] => ChangedFiles \subseteq {streams[s].file}
       /\ \A h \in HandleIds :
            accessHandles'[h] # accessHandles[h] => ChangedFiles = {}
       /\ (Len(streams') # Len(streams) \/ Len(accessHandles') # Len(accessHandles))
            => ChangedFiles = {}
       /\ (streams' = streams /\ accessHandles' = accessHandles) =>
            \E h \in HandleIds :
              ~accessHandles[h].closed /\ ChangedFiles = {accessHandles[h].file}]_vars
\* two files named "a" in different directories hold different committed bytes while
\* a stream is open on one and a sync access handle on the other
C37_Witness ==
  \E f, g \in AttachedFiles :
    /\ f # g /\ fileHandles[f].name = fileHandles[g].name
    /\ Committed[f] # <<>> /\ Committed[g] # <<>> /\ Committed[f] # Committed[g]
    /\ \E s \in StreamIds : streams[s].file = f /\ streams[s].isClosed
    /\ \E h \in HandleIds : accessHandles[h].file = g /\ ~accessHandles[h].closed

\* the places (directory, index in its map) where file f or directory e is a child
FileParents(f) ==
  {p \in DirIds \X (1 .. MaxFiles) :
     p[2] <= Len(dirs[p[1]].files) /\ dirs[p[1]].files[p[2]][2] = f}
DirectoryParents(e) ==
  {p \in DirIds \X (1 .. MaxDirs) :
     p[2] <= Len(dirs[p[1]].directories) /\ dirs[p[1]].directories[p[2]][2] = e}

\* C38: the entries form a forest: a file or directory is a child of at most one
\* directory under one name (of exactly one when it is reachable from a root, of
\* none when it is a root), a directory's children were created after it, so no
\* directory is its own descendant, and resolve and getSizeOfDirectory come to an end
\* on every root.
C38_Tree ==
  /\ \A d \in DirIds : \A i \in 1 .. Len(dirs[d].directories) :
       dirs[d].directories[i][2] > d
  /\ \A d \in DirIds : ~\E path \in Paths : path # <<>> /\ LeadsTo(d, path, DirectoryHandle(d))
  /\ \A f \in FileIds : Cardinality(FileParents(f)) <= 1
  /\ \A e \in DirIds : Cardinality(DirectoryParents(e)) <= 1
  /\ \A d \in DirIds :
       dirs[d].name = "root" =>
         /\ DirectoryParents(d) = {}
         /\ \A h \in Handles :
              (InSubtree(d, h) /\ h # DirectoryHandle(d)) =>
                Cardinality(IF h.kind = "file" THEN FileParents(h.id)
                            ELSE DirectoryParents(h.id)) = 1
         /\ GetSizeOfDirectory(d) \in Nat
         /\ \A h \in Handles : Resolve(d, h).t \in {"null", "path"}
\* a root with a subdirectory that holds a file, which resolve finds two names deep,
\* next to an older root
C38_Witness ==
  \E e \in DirIds, f \in FileIds :
    /\ root # 1
    /\ <<root, 1>> \in DirectoryParents(e)
    /\ <<e, 1>> \in FileParents(f)
    /\ Resolve(root, FileHandle(f)).t = "path"
    /\ Len(Resolve(root, FileHandle(f)).path) = 2

\* the sequence an iteration of the given kind yields for the children `children`
ProjectedAs(kind, children) ==
  [k \in 1 .. Len(children) |->
     IF kind = "keys" THEN children[k][1]
     ELSE IF kind = "values" THEN children[k][2]
     ELSE children[k]]

\* C39: an iteration yields the children the directory has when its first element is
\* requested, each once; what is created in or removed from the directory afterwards
\* does not change what it yields; an iteration whose first element is requested
\* later yields the children of that later moment.
C39_IterationSnapshot ==
  /\ [][\A i \in 1 .. Len(iterators) :
          (~iterators[i].started /\ iterators'[i].started) =>
            ProjectedAs(iterators[i].kind, iterators'[i].joinedMaps)
              = ProjectedAs(iterators[i].kind, Children(iterators[i].dir))]_vars
  /\ [][\A i \in 1 .. Len(iterators) :
          iterators[i].started =>
            /\ iterators'[i].joinedMaps = iterators[i].joinedMaps
            /\ \A k \in 1 .. iterators[i].yielded : Yielded(i)'[k] = Yielded(i)[k]]_vars
  /\ [](\A i \in 1 .. Len(iterators) :
          Yielded(i) = SubSeq(ProjectedAs(iterators[i].kind, iterators[i].joinedMaps),
                              1, iterators[i].yielded))

\* C40: the installed storage's estimate() sums the files below the root that its
\* getDirectory() returns, also after resetMockOPFS(): bytes committed below the
\* current root count, bytes below a replaced root do not.
C40_EstimateFollowsReset ==
  InstalledEstimate.usage = TotalSize(GetDirectory.id)

====
